---- MODULE Spec2Model ----
(***************************************************************************)
(* King-Altmann reaction network (KingAltmann.py): the Reactions class,    *)
(* its value types, addReaction and the two matrix queries.                *)
(*                                                                         *)
(* Optional values (Python None / object) are sequences of length 0 or 1:  *)
(* None is <<>>, an object x is <<x>>.                                     *)
(***************************************************************************)
EXTENDS Naturals, Sequences, FiniteSets

\* ------------------------------------------------------------------ bounds

\* Cap on the length of _reactions (the code has none).
MaxReactions == 3

\* The names the calls draw from.
StateNames == {"E", "EA", "EAB"}
RateNames == {"k1", "k-1", "k2"}
\* pseudoFirstOrderReactant arguments of ReactionRate(...): None, or a name.
\* Only k1 is given with and without a reactant.
ReactantArgs(name) == IF name = "k1" THEN {<<>>, <<"A">>} ELSE {<<>>}

None == <<>>
Some(x) == <<x>>

\* ------------------------------------------------------------- value types

\* Enzymestate.__init__
Enzymestate(name) == [enzyme |-> name]

\* Enzymestate.__eq__
StateEq(a, b) == a.enzyme = b.enzyme

\* ReactionRate.__init__: a falsy reactant argument (None, "") gives None.
ReactionRate(name, pseudoFirstOrderReactant) ==
    [name |-> name,
     reactant |-> IF pseudoFirstOrderReactant = None
                     \/ pseudoFirstOrderReactant = Some("")
                  THEN None ELSE pseudoFirstOrderReactant]

\* ReactionRate.__str__
RateStr(rate) ==
    IF rate.reactant # None
    THEN rate.name \o "[" \o rate.reactant[1] \o "]"
    ELSE rate.name

\* A plausible slip: equality that also compares the reactant annotation.
RateEq_withReactant(a, b) == a.name = b.name /\ a.reactant = b.reactant

\* ReactionRate.__eq__: by name only.
RateEq(a, b) == a.name = b.name

\* UnitReaction.__init__
UnitReaction(from_State, rate, to_State) ==
    [from_state |-> from_State, to_state |-> to_State, rate |-> rate]

\* UnitReaction.__eq__
ReactionEq(a, b) ==
    /\ StateEq(a.from_state, b.from_state)
    /\ StateEq(a.to_state, b.to_state)
    /\ RateEq(a.rate, b.rate)

\* BiDirReaction.__init__
BiDirReaction(fwd_reaction, rev_reaction) ==
    [fwd_reaction |-> fwd_reaction, rev_reaction |-> rev_reaction]

\* BiDirReaction.contains_Rate (rate is optional)
contains_Rate(bi, rate) ==
    IF rate = None THEN FALSE
    ELSE RateEq(rate[1], bi.fwd_reaction.rate) \/ RateEq(rate[1], bi.rev_reaction.rate)

\* BiDirReaction.contains_reaction (reaction is optional)
contains_reaction(bi, reaction) ==
    IF reaction = None THEN FALSE
    ELSE ReactionEq(reaction[1], bi.fwd_reaction) \/ ReactionEq(reaction[1], bi.rev_reaction)

\* BiDirReaction.__str__
BiDirStr(bi) == RateStr(bi.fwd_reaction.rate) \o "//" \o RateStr(bi.rev_reaction.rate)

\* ----------------------------------------------------------------- queries
\* rs: _reactions, es: _enzymeStates, bis: _bidirectionalRates.

\* Python's `e in list`, by __eq__.
StateIn(e, es) == \E i \in 1..Len(es) : StateEq(es[i], e)

\* A plausible slip (rate aliasing): the lookup also compares the reactant.
reaction_from_Rate_withReactant(rs, rate) ==
    SelectSeq(rs, LAMBDA reac : RateEq_withReactant(reac.rate, rate))

\* Reactions.reaction_from_Rate
reaction_from_Rate(rs, rate) == SelectSeq(rs, LAMBDA reac : RateEq(reac.rate, rate))

\* Reactions.produced_by
produced_by(rs, e) == SelectSeq(rs, LAMBDA react : StateEq(react.to_state, e))

\* Reactions.consumed_by
consumed_by(rs, e) == SelectSeq(rs, LAMBDA react : StateEq(react.from_state, e))

\* A plausible slip: every reaction leaving the product counts as a reverse.
reverse_Reaction_noFilter(rs, reaction) ==
    LET reverseReact == consumed_by(rs, reaction.to_state)
    IN  IF Len(reverseReact) = 0 THEN [err |-> "none", val |-> None]
        ELSE IF Len(reverseReact) = 1 THEN [err |-> "none", val |-> Some(reverseReact[1])]
        ELSE [err |-> "MultipleReverseReactions", val |-> None]

\* Reactions.reverse_Reaction: the value returned, or the error raised.
reverse_Reaction(rs, reaction) ==
    LET fwdSub == reaction.from_state
        fwdProd == reaction.to_state
        reverseReact == SelectSeq(consumed_by(rs, fwdProd),
                                  LAMBDA react : StateEq(react.to_state, fwdSub))
    IN  IF Len(reverseReact) = 0 THEN [err |-> "none", val |-> None]
        ELSE IF Len(reverseReact) = 1 THEN [err |-> "none", val |-> Some(reverseReact[1])]
        ELSE [err |-> "MultipleReverseReactions", val |-> None]

\* Reactions.reaction_from_Reactants: the value returned, or the error raised.
reaction_from_Reactants(rs, from_state, to_state) ==
    LET res == SelectSeq(rs, LAMBDA reaction :
                   StateEq(reaction.from_state, from_state)
                   /\ StateEq(reaction.to_state, to_state))
    IN  IF Len(res) = 0 THEN [err |-> "none", val |-> None]
        ELSE IF Len(res) > 1 THEN [err |-> "MultipleMatchingReactions", val |-> None]
        ELSE [err |-> "none", val |-> Some(res[1])]

\* A plausible slip: row and column swapped in the lookup.
kinetic_matrix_transposed(rs, es) ==
    LET N == Len(es)
        reac(i, j) == reaction_from_Reactants(rs, es[j], es[i])
    IN  IF \E i \in 1..N, j \in 1..N : reac(i, j).err # "none"
        THEN [err |-> "MultipleMatchingReactions", val |-> <<>>]
        ELSE [err |-> "none",
              val |-> [i \in 1..N |-> [j \in 1..N |->
                         IF reac(i, j).val # None
                         THEN Some(reac(i, j).val[1].rate) ELSE None]]]

\* Reactions.kinetic_matrix: the table (rows of optional rates), or the error
\* the first failing lookup raises.
kinetic_matrix(rs, es) ==
    LET N == Len(es)
        reac(i, j) == reaction_from_Reactants(rs, es[i], es[j])
    IN  IF \E i \in 1..N, j \in 1..N : reac(i, j).err # "none"
        THEN [err |-> "MultipleMatchingReactions", val |-> <<>>]
        ELSE [err |-> "none",
              val |-> [i \in 1..N |-> [j \in 1..N |->
                         IF reac(i, j).val # None
                         THEN Some(reac(i, j).val[1].rate) ELSE None]]]

\* The positions in bis of the edges the filter of linear_graph_matrix keeps.
matching_edges(bis, rate) == {k \in 1..Len(bis) : contains_Rate(bis[k], rate)}

\* Reactions.linear_graph_matrix: the table, or the error raised. A cell
\* refers to an edge object of _bidirectionalRates: it holds the position of
\* that object in the list. list(filter(...))[0] on an empty list raises
\* IndexError.
linear_graph_matrix(rs, es, bis) ==
    LET N == Len(es)
        kin == kinetic_matrix(rs, es)
        first(S) == CHOOSE k \in S : \A m \in S : k <= m
    IN  IF kin.err # "none" THEN [err |-> kin.err, val |-> <<>>]
        ELSE IF \E i \in 1..N, j \in 1..N :
                   kin.val[i][j] # None /\ matching_edges(bis, kin.val[i][j]) = {}
        THEN [err |-> "IndexError", val |-> <<>>]
        ELSE [err |-> "none",
              val |-> [i \in 1..N |-> [j \in 1..N |->
                         IF kin.val[i][j] = None THEN None
                         ELSE Some(first(matching_edges(bis, kin.val[i][j])))]]]

\* ------------------------------------------------------------ addReaction

\* A plausible slip: insert(0, e) instead of append(e).
add_enzymeStates_prepend(es, u) ==
    LET s1 == IF StateIn(u.from_state, es) THEN es ELSE <<u.from_state>> \o es
    IN  IF StateIn(u.to_state, s1) THEN s1 ELSE <<u.to_state>> \o s1

\* A plausible slip: the destination is looked at before the source.
add_enzymeStates_toFirst(es, u) ==
    LET s1 == IF StateIn(u.to_state, es) THEN es ELSE Append(es, u.to_state)
    IN  IF StateIn(u.from_state, s1) THEN s1 ELSE Append(s1, u.from_state)

\* Reactions._add_enzymeStates: for e in [from_state, to_state].
add_enzymeStates(es, u) ==
    LET s1 == IF StateIn(u.from_state, es) THEN es ELSE Append(es, u.from_state)
    IN  IF StateIn(u.to_state, s1) THEN s1 ELSE Append(s1, u.to_state)

\* A plausible slip: the found reaction becomes the forward leg.
add_bidirectionalRates_swapped(rs, bis, reaction) ==
    IF \E k \in 1..Len(bis) : contains_reaction(bis[k], Some(reaction))
    THEN [err |-> "DuplicateRatePairing", bis |-> bis]
    ELSE LET reverseReaction == reverse_Reaction(rs, reaction)
         IN  IF reverseReaction.err # "none"
             THEN [err |-> reverseReaction.err, bis |-> bis]
             ELSE IF reverseReaction.val = None
             THEN [err |-> "none", bis |-> bis]
             ELSE [err |-> "none",
                   bis |-> Append(bis, BiDirReaction(reverseReaction.val[1], reaction))]

\* Reactions._add_bidirectionalRates, on the list that already holds reaction:
\* the new _bidirectionalRates, and the error raised if any.
add_bidirectionalRates(rs, bis, reaction) ==
    IF \E k \in 1..Len(bis) : contains_reaction(bis[k], Some(reaction))
    THEN [err |-> "DuplicateRatePairing", bis |-> bis]
    ELSE LET reverseReaction == reverse_Reaction(rs, reaction)
         IN  IF reverseReaction.err # "none"
             THEN [err |-> reverseReaction.err, bis |-> bis]
             ELSE IF reverseReaction.val = None
             THEN [err |-> "none", bis |-> bis]
             ELSE [err |-> "none",
                   bis |-> Append(bis, BiDirReaction(reaction, reverseReaction.val[1]))]

\* A plausible slip: the lists are restored when the pairing step raises.
addReaction_rollback(rs, es, bis, reaction) ==
    IF Len(reaction_from_Rate(rs, reaction.rate)) > 0
    THEN [err |-> "DuplicateRate", rs |-> rs, es |-> es, bis |-> bis]
    ELSE LET pair == add_bidirectionalRates(Append(rs, reaction), bis, reaction)
         IN  IF pair.err # "none"
             THEN [err |-> pair.err, rs |-> rs, es |-> es, bis |-> bis]
             ELSE [err |-> pair.err, rs |-> Append(rs, reaction),
                   es |-> add_enzymeStates(es, reaction), bis |-> pair.bis]

\* A plausible slip: the duplicate check made after the append.
addReaction_checkLate(rs, es, bis, reaction) ==
    IF Len(reaction_from_Rate(Append(rs, reaction), reaction.rate)) > 1
    THEN [err |-> "DuplicateRate", rs |-> Append(rs, reaction), es |-> es, bis |-> bis]
    ELSE LET pair == add_bidirectionalRates(Append(rs, reaction), bis, reaction)
         IN  [err |-> pair.err, rs |-> Append(rs, reaction),
              es |-> add_enzymeStates(es, reaction), bis |-> pair.bis]

\* Reactions.addReaction: the three lists after the call, and the error raised
\* if any. Nothing is undone when _add_bidirectionalRates raises.
addReaction_result(rs, es, bis, reaction) ==
    IF Len(reaction_from_Rate(rs, reaction.rate)) > 0
    THEN [err |-> "DuplicateRate", rs |-> rs, es |-> es, bis |-> bis]
    ELSE LET pair == add_bidirectionalRates(Append(rs, reaction), bis, reaction)
         IN  [err |-> pair.err, rs |-> Append(rs, reaction),
              es |-> add_enzymeStates(es, reaction), bis |-> pair.bis]

\* ------------------------------------------------------------------- state

VARIABLES
    reactions,           \* Reactions._reactions
    enzymeStates,        \* Reactions._enzymeStates
    bidirectionalRates,  \* Reactions._bidirectionalRates
    op,                  \* the last call made on the network
    argRate,             \* the rate of its argument (addReaction), optional
    err,                 \* the error it raised, "none" if it returned
    result,              \* the table a matrix query returned
    inputs,              \* history: the arguments of all addReaction calls so far,
                         \* kept while they are pairwise distinct in rate name and
                         \* in (from, to); emptied for good once they are not
    clean,               \* history: whether they still are
    failed               \* history: whether some addReaction call has raised

vars == <<reactions, enzymeStates, bidirectionalRates, op, argRate, err, result,
          inputs, clean, failed>>

\* The reactions a caller can construct from the names.
UnitReactions ==
    {UnitReaction(Enzymestate(a), ReactionRate(n, x), Enzymestate(b)) :
        <<a, n, x, b>> \in {t \in StateNames \X RateNames \X {<<>>, <<"A">>} \X StateNames :
                               t[3] \in ReactantArgs(t[2])}}

\* Reactions.__init__
Init ==
    /\ reactions = <<>>
    /\ enzymeStates = <<>>
    /\ bidirectionalRates = <<>>
    /\ op = "init"
    /\ argRate = None
    /\ err = "none"
    /\ result = <<>>
    /\ inputs = <<>>
    /\ clean = TRUE
    /\ failed = FALSE

\* History only: reaction is fresh, in rate name and in endpoints, among ins.
FreshInput(ins, reaction) ==
    \A i \in 1..Len(ins) :
        /\ ins[i].rate.name # reaction.rate.name
        /\ ~(ins[i].from_state = reaction.from_state /\ ins[i].to_state = reaction.to_state)

\* A call mechanism.addReaction(reaction).
addReaction(reaction) ==
    LET r == addReaction_result(reactions, enzymeStates, bidirectionalRates, reaction)
    IN  /\ Len(r.rs) <= MaxReactions
        /\ reactions' = r.rs
        /\ enzymeStates' = r.es
        /\ bidirectionalRates' = r.bis
        /\ op' = "addReaction"
        /\ argRate' = Some(reaction.rate)
        /\ err' = r.err
        /\ result' = <<>>
        /\ clean' = (clean /\ FreshInput(inputs, reaction))
        /\ inputs' = IF clean' THEN Append(inputs, reaction) ELSE <<>>
        /\ failed' = (failed \/ r.err # "none")

\* A call mechanism.kinetic_matrix().
kineticMatrix ==
    LET r == kinetic_matrix(reactions, enzymeStates)
    IN  /\ op' = "kineticMatrix"
        /\ argRate' = None
        /\ err' = r.err
        /\ result' = r.val
        /\ UNCHANGED <<reactions, enzymeStates, bidirectionalRates, inputs, clean, failed>>

\* A call mechanism.linear_graph_matrix().
linearGraphMatrix ==
    LET r == linear_graph_matrix(reactions, enzymeStates, bidirectionalRates)
    IN  /\ op' = "linearGraphMatrix"
        /\ argRate' = None
        /\ err' = r.err
        /\ result' = r.val
        /\ UNCHANGED <<reactions, enzymeStates, bidirectionalRates, inputs, clean, failed>>

Next ==
    \/ \E reaction \in UnitReactions : addReaction(reaction)
    \/ kineticMatrix
    \/ linearGraphMatrix

Spec == Init /\ [][Next]_vars

\* ------------------------------------------------------------------ claims

\* I1 on a list of reactions: rate names pairwise distinct.
DistinctRateNames(rs) ==
    \A i, j \in 1..Len(rs) : i # j => rs[i].rate.name # rs[j].rate.name

\* I2 on a list of reactions: at most one reaction per ordered pair of states.
NoParallelEdges(rs) ==
    \A i, j \in 1..Len(rs) :
        i # j => ~(rs[i].from_state = rs[j].from_state /\ rs[i].to_state = rs[j].to_state)

\* The reactions of the network going from state a to state b.
ReactionsBetween(a, b) ==
    {i \in 1..Len(reactions) : reactions[i].from_state = a /\ reactions[i].to_state = b}

\* The edges of the network having reaction r as a leg.
EdgesWith(r) ==
    {k \in 1..Len(bidirectionalRates) :
        bidirectionalRates[k].fwd_reaction = r \/ bidirectionalRates[k].rev_reaction = r}

\* C1 (I2): as long as no addReaction call has raised, no two reactions share
\* the same ordered pair (fromState, toState), and no query raises
\* MultipleMatchingReactions.
C1_NoParallelEdges ==
    ~failed => (NoParallelEdges(reactions) /\ err # "MultipleMatchingReactions")

\* C2 (I3, uniqueness): every reaction is a leg of at most one edge of
\* bidirectionalEdges.
C2_OneEdgePerReaction ==
    \A i \in 1..Len(reactions) : Cardinality(EdgesWith(reactions[i])) <= 1

\* C3: when some reaction has no edge containing its rate, linearGraphMatrix()
\* returns normally and the cell of every such reaction is absent.
C3_UnpairedCellAbsent ==
    LET N == Len(enzymeStates)
        unpaired(i, j) ==
            \E m \in ReactionsBetween(enzymeStates[i], enzymeStates[j]) :
                \A k \in 1..Len(bidirectionalRates) :
                    /\ bidirectionalRates[k].fwd_reaction.rate.name # reactions[m].rate.name
                    /\ bidirectionalRates[k].rev_reaction.rate.name # reactions[m].rate.name
    IN  (op = "linearGraphMatrix" /\ \E i \in 1..N, j \in 1..N : unpaired(i, j))
        => /\ err = "none"
           /\ \A i \in 1..N, j \in 1..N : unpaired(i, j) => result[i][j] = None

\* The two reactions of the k1 / k-1 example.
R1 == UnitReaction(Enzymestate("E"), ReactionRate("k1", None), Enzymestate("EA"))
R2 == UnitReaction(Enzymestate("EA"), ReactionRate("k-1", None), Enzymestate("E"))

C5_BothDirectionsSameEdge ==
    LET N == Len(enzymeStates)
        fw(i, j) == ReactionsBetween(enzymeStates[i], enzymeStates[j])
    IN  (op = "linearGraphMatrix" /\ clean)
        => \A i \in 1..N, j \in 1..N :
              (i # j /\ fw(i, j) # {} /\ fw(j, i) # {})
              => /\ err = "none"
                 /\ result[i][j] # None
                 /\ result[i][j] = result[j][i]
                 /\ LET e == bidirectionalRates[result[i][j][1]]
                    IN  {e.fwd_reaction, e.rev_reaction}
                          = {reactions[m] : m \in fw(i, j) \cup fw(j, i)}

\* C6 (I1): in every reachable state no two entries of reactions have equal
\* rate names.
C6_RateNamesUnique == DistinctRateNames(reactions)

C6_Witness ==
    /\ op = "addReaction"
    /\ err = "DuplicateRate"
    /\ Len(reactions) >= 2
    /\ \E i \in 1..Len(reactions) :
          /\ reactions[i].rate.name = argRate[1].name
          /\ reactions[i].rate.reactant # argRate[1].reactant

\* C7 (atomic rejection): a call addReaction(r) whose rate name is already in
\* the network raises DuplicateRate and leaves reactions, states and
\* bidirectionalEdges as they were.
C7_AtomicRejection ==
    [][ (/\ op' = "addReaction"
         /\ \E i \in 1..Len(reactions) : reactions[i].rate.name = argRate'[1].name)
        => /\ err' = "DuplicateRate"
           /\ reactions' = reactions
           /\ enzymeStates' = enzymeStates
           /\ bidirectionalRates' = bidirectionalRates ]_vars

C7_Witness ==
    /\ op = "addReaction"
    /\ err = "DuplicateRate"
    /\ Len(reactions) >= 2
    /\ Len(bidirectionalRates) >= 1

\* C8: while the arguments of all addReaction calls so far are pairwise
\* distinct in rate name and in (from, to), no addReaction call has raised.
C8_CleanInputsNeverRaise == clean => ~failed

C8_Witness ==
    /\ clean
    /\ op = "addReaction"
    /\ Len(inputs) = 3
    /\ Len(bidirectionalRates) >= 1

\* The endpoints of the reactions in replay order: from, to, from, to, ...
Endpoints(rs) ==
    [k \in 1..(2 * Len(rs)) |->
        IF k % 2 = 1 THEN rs[(k + 1) \div 2].from_state ELSE rs[k \div 2].to_state]

\* The position of the first occurrence of x in s.
FirstPos(s, x) == CHOOSE k \in 1..Len(s) : s[k] = x /\ \A m \in 1..(k - 1) : s[m] # x

\* C9 (I4 with ordering): states has no duplicates, holds exactly the states
\* that are an endpoint of some reaction, and lists them in the order of their
\* first occurrence when the reactions are replayed (from before to).
C9_StatesFirstSeen ==
    LET ends == Endpoints(reactions)
        N == Len(enzymeStates)
    IN  /\ \A i, j \in 1..N : i # j => enzymeStates[i] # enzymeStates[j]
        /\ {enzymeStates[i] : i \in 1..N} = {ends[k] : k \in 1..Len(ends)}
        /\ \A i, j \in 1..N :
              i < j => FirstPos(ends, enzymeStates[i]) < FirstPos(ends, enzymeStates[j])

C9_Witness ==
    /\ op = "addReaction"
    /\ Len(reactions) = 3
    /\ Len(enzymeStates) = 3
    /\ enzymeStates[1].enzyme = "EAB"
    /\ enzymeStates[2].enzyme = "E"
    /\ reactions[2].from_state = reactions[2].to_state

\* C10: on a network satisfying I2, kineticMatrix() returns an N x N table,
\* N the number of states, whose cell [i][j] is the rate of the reaction from
\* states[i] to states[j] if there is one and absent otherwise, i = j included.
C10_KineticMatrixCells ==
    LET N == Len(enzymeStates)
    IN  (op = "kineticMatrix" /\ NoParallelEdges(reactions))
        => /\ err = "none"
           /\ Len(result) = N
           /\ \A i \in 1..N :
                 /\ Len(result[i]) = N
                 /\ \A j \in 1..N :
                       LET between == ReactionsBetween(enzymeStates[i], enzymeStates[j])
                       IN  IF between = {} THEN result[i][j] = None
                           ELSE \E m \in between : result[i][j] = Some(reactions[m].rate)

C10_Witness ==
    /\ op = "kineticMatrix"
    /\ err = "none"
    /\ Len(enzymeStates) = 3
    /\ \E i \in 1..3 : result[i][i] # None
    /\ \E i, j \in 1..3 : i # j /\ result[i][j] # None /\ result[j][i] = None

\* The last element of a non-empty sequence.
Last(s) == s[Len(s)]

\* s is a prefix of t.
IsPrefix(s, t) == Len(s) <= Len(t) /\ SubSeq(t, 1, Len(s)) = s

\* The step is an addReaction call that passed the duplicate-rate check: the
\* reaction it was given is Last(reactions').
PassedCheck == op' = "addReaction" /\ err' # "DuplicateRate"

\* C11: a call addReaction(r) whose rate has the name of a rate already in the
\* network and another reactant annotation (or none) raises DuplicateRate,
\* whatever the endpoints of r.
C11_ReactantIgnored ==
    [][ (/\ op' = "addReaction"
         /\ \E i \in 1..Len(reactions) :
               /\ reactions[i].rate.name = argRate'[1].name
               /\ reactions[i].rate.reactant # argRate'[1].reactant)
        => err' = "DuplicateRate" ]_vars

C11_Witness ==
    /\ op = "addReaction"
    /\ err = "DuplicateRate"
    /\ argRate = Some(ReactionRate("k1", Some("A")))
    /\ \E i \in 1..Len(reactions) : reactions[i].rate = ReactionRate("k1", None)

\* No reaction of rs has a counterpart with reversed endpoints in rs (a
\* reaction with fromState = toState is its own counterpart).
NoReversePairs(rs) ==
    \A i, j \in 1..Len(rs) :
        ~(rs[i].from_state = rs[j].to_state /\ rs[i].to_state = rs[j].from_state)

\* C12: as long as no reaction of the network has a counterpart with reversed
\* endpoints, bidirectionalEdges is empty.
C12_NoReverseNoEdge == NoReversePairs(reactions) => bidirectionalRates = <<>>

C12_Witness ==
    /\ op = "addReaction"
    /\ Len(reactions) = 3
    /\ Len(enzymeStates) = 3
    /\ NoReversePairs(reactions)
    /\ reactions[1].to_state = reactions[2].from_state
    /\ reactions[2].to_state = reactions[3].from_state
    /\ reactions[3].to_state = reactions[1].from_state

\* C13: in a call addReaction(R) that passed the duplicate-rate check, when
\* exactly one reaction R' going from R.toState to R.fromState was present,
\* exactly the edge (forward R, reverse R') is appended; and no call appends
\* more than one edge.
C13_PairingStep ==
    [][ PassedCheck
        => LET R == Last(reactions')
               present == ReactionsBetween(R.to_state, R.from_state)
           IN  /\ Len(bidirectionalRates') <= Len(bidirectionalRates) + 1
               /\ Cardinality(present) = 1
                  => \E m \in present :
                        bidirectionalRates'
                          = Append(bidirectionalRates, BiDirReaction(R, reactions[m])) ]_vars

\* C14: the two legs of every edge are different reactions.
C14_LegsDistinct ==
    \A k \in 1..Len(bidirectionalRates) :
        bidirectionalRates[k].fwd_reaction # bidirectionalRates[k].rev_reaction

\* C15: both legs of every edge are in reactions, and the reverse leg goes
\* from the forward leg's toState to the forward leg's fromState.
C15_EdgesWellFormed ==
    \A k \in 1..Len(bidirectionalRates) :
        LET e == bidirectionalRates[k]
        IN  /\ \E i \in 1..Len(reactions) : reactions[i] = e.fwd_reaction
            /\ \E i \in 1..Len(reactions) : reactions[i] = e.rev_reaction
            /\ e.rev_reaction.from_state = e.fwd_reaction.to_state
            /\ e.rev_reaction.to_state = e.fwd_reaction.from_state

C15_Witness ==
    /\ op = "addReaction"
    /\ Len(bidirectionalRates) = 2
    /\ bidirectionalRates[1].fwd_reaction.from_state
         # bidirectionalRates[1].fwd_reaction.to_state

\* C16: in a call that passed the duplicate-rate check no edge present before
\* the call has the added reaction (same endpoints, same rate name) as a leg,
\* and the error of the pairing step's first check is never raised.
C16_PairingCheckUnreachable ==
    [][ PassedCheck
        => LET R == Last(reactions')
               same(a) == /\ a.from_state = R.from_state
                          /\ a.to_state = R.to_state
                          /\ a.rate.name = R.rate.name
           IN  /\ err' # "DuplicateRatePairing"
               /\ \A k \in 1..Len(bidirectionalRates) :
                     /\ ~same(bidirectionalRates[k].fwd_reaction)
                     /\ ~same(bidirectionalRates[k].rev_reaction) ]_vars

C16_Witness ==
    /\ op = "addReaction"
    /\ err = "none"
    /\ Len(reactions) = 3
    /\ Len(bidirectionalRates) = 1
    /\ bidirectionalRates[1].fwd_reaction = reactions[2]

\* C17: reverseReaction((A, r, B)) returns none when the network has no
\* reaction B -> A, that reaction when it has exactly one, and signals
\* MultipleReverseReactions when it has two or more; and a call
\* addReaction((A, r, B)) that passed the duplicate-rate check raises
\* MultipleReverseReactions exactly when at least two reactions B -> A were
\* present before the call.
C17_ReverseLookup ==
    [][ /\ \A u \in UnitReactions :
              LET found == ReactionsBetween(u.to_state, u.from_state)
                  got == reverse_Reaction(reactions, u)
              IN  /\ found = {} => got = [err |-> "none", val |-> None]
                  /\ Cardinality(found) = 1
                     => \E m \in found : got = [err |-> "none", val |-> Some(reactions[m])]
                  /\ Cardinality(found) >= 2 => got.err = "MultipleReverseReactions"
        /\ PassedCheck
           => LET R == Last(reactions')
              IN  (err' = "MultipleReverseReactions")
                    <=> (Cardinality(ReactionsBetween(R.to_state, R.from_state)) >= 2) ]_vars

\* C18 (append-only): in every step each of reactions, states and
\* bidirectionalEdges keeps its former value as a prefix.
C18_AppendOnly ==
    [][ /\ IsPrefix(reactions, reactions')
        /\ IsPrefix(enzymeStates, enzymeStates')
        /\ IsPrefix(bidirectionalRates, bidirectionalRates') ]_vars

C18_Witness ==
    /\ op = "addReaction"
    /\ Len(reactions) = 3
    /\ Len(enzymeStates) = 3
    /\ Len(bidirectionalRates) = 1
    /\ bidirectionalRates[1].fwd_reaction = reactions[3]

\* C19 (no rollback): when addReaction(R) raises MultipleReverseReactions, R
\* has been appended to reactions, the endpoints of R not yet in states have
\* been appended to states (from before to), and bidirectionalEdges is as it
\* was.
C19_NoRollback ==
    [][ (op' = "addReaction" /\ err' = "MultipleReverseReactions")
        => /\ Len(reactions') = Len(reactions) + 1
           /\ IsPrefix(reactions, reactions')
           /\ Last(reactions').rate = argRate'[1]
           /\ LET R == Last(reactions')
                  known(x) == \E i \in 1..Len(enzymeStates) : enzymeStates[i] = x
                  new == IF known(R.from_state) THEN <<>> ELSE <<R.from_state>>
                  new2 == IF known(R.to_state) \/ R.to_state = R.from_state
                          THEN <<>> ELSE <<R.to_state>>
              IN  enzymeStates' = enzymeStates \o new \o new2
           /\ bidirectionalRates' = bidirectionalRates ]_vars

C19_Witness ==
    /\ op = "addReaction"
    /\ err = "MultipleReverseReactions"
    /\ Len(reactions) = 3
    /\ Last(reactions).rate = argRate[1]
    /\ Last(reactions).from_state # Last(reactions).to_state

\* C20 (order independence): while the arguments of all addReaction calls are
\* pairwise distinct in rate name and in (from, to) and none has fromState =
\* toState, the unordered leg pairs of bidirectionalEdges are exactly the pairs
\* of reactions with reversed endpoints, one edge each (a function of the set
\* of reactions, not of their order), and the forward leg of every edge is the
\* one added later.
C20_OrderIndependent ==
    LET pos(r) == CHOOSE i \in 1..Len(reactions) : reactions[i] = r
        reversed == {{reactions[i], reactions[j]} : <<i, j>> \in
                       {p \in (1..Len(reactions)) \X (1..Len(reactions)) :
                           /\ p[1] < p[2]
                           /\ reactions[p[1]].from_state = reactions[p[2]].to_state
                           /\ reactions[p[1]].to_state = reactions[p[2]].from_state}}
        legs(k) == {bidirectionalRates[k].fwd_reaction, bidirectionalRates[k].rev_reaction}
    IN  (clean /\ \A i \in 1..Len(inputs) : inputs[i].from_state # inputs[i].to_state)
        => /\ {legs(k) : k \in 1..Len(bidirectionalRates)} = reversed
           /\ Len(bidirectionalRates) = Cardinality(reversed)
           /\ \A k \in 1..Len(bidirectionalRates) :
                 pos(bidirectionalRates[k].fwd_reaction)
                   > pos(bidirectionalRates[k].rev_reaction)

C20_Witness ==
    /\ clean
    /\ op = "addReaction"
    /\ Len(inputs) = 3
    /\ \A i \in 1..3 : inputs[i].from_state # inputs[i].to_state
    /\ Len(bidirectionalRates) = 1
    /\ bidirectionalRates[1].fwd_reaction = reactions[3]
    /\ bidirectionalRates[1].rev_reaction = reactions[1]

====
